---- MODULE Spec2Model ----
(***************************************************************************)
(* Model of the zarr store writer of HSTB.kluster.xarray_helpers:          *)
(* ZarrWrite.write_to_zarr and its helpers, and the dispatcher             *)
(* distrib_zarr_write that runs one write task per batch.                  *)
(*                                                                         *)
(* The store (zarr rootgroup) is a function from array name to an array    *)
(* record [dtype, fill, shape, data, dims]; a 1-D array's data is a        *)
(* sequence of values, a 2-D array's data a sequence of rows; dims is the  *)
(* array's _ARRAY_DIMENSIONS attribute.  Values are integers;              *)
(* the no-data value of floats (NaN) is FloatNoData and the no-data value  *)
(* of other dtypes ('') is StrNoData.                                      *)
(***************************************************************************)
EXTENDS Integers, Sequences, FiniteSets, TLC

\* ---------------------------------------------------------------- bounds
MaxCalls == 2
MaxTasks == 3
MaxBeam == 2
MaxStart == 2
Chunk == 2
MaxOverlap == 1

\* ------------------------------------------------------ program constants
FloatNoData == -1
IntNoData == 999
StrNoData == -2
None == -3

\* rootgroup, rootattrs: the arrays and the attributes of the zarr store
\* call, task, pc:       the running distrib_zarr_write call, the state of each of
\*                        its tasks (task[i + 1] for task i) and where the dispatcher is
\* ncalls:               the number of calls made
\* maxEnd, clean:        the largest data_locs end handed to a call so far, and
\*                        whether every task so far ended without an error
\* exc:                  the exception the last call raised to its caller ("none"
\*                        when it returned its futures or is still running)
\* args, ret:            the arguments and the result of a call of one of the
\*                        module's functions that is studied on its own
VARIABLES rootgroup, rootattrs, call, task, pc, ncalls, maxEnd, clean, exc, args, ret

vars == <<rootgroup, rootattrs, call, task, pc, ncalls, maxEnd, clean, exc, args, ret>>

\* ------------------------------------------------------------ small helpers
Min2(a, b) == IF a < b THEN a ELSE b

Max2(a, b) == IF a > b THEN a ELSE b

SeqMin(s) == CHOOSE m \in {s[k] : k \in 1..Len(s)} : \A k \in 1..Len(s) : m <= s[k]

SeqMax(s) == CHOOSE m \in {s[k] : k \in 1..Len(s)} : \A k \in 1..Len(s) : m >= s[k]

\* tuple.index(x): position (0-based) of the first element equal to x
TupleIndex(shp, x) == (CHOOSE k \in 1..Len(shp) : shp[k] = x /\ \A m \in 1..(k - 1) : shp[m] # x) - 1

\* -------------------------------------------------------------- the arrays
\* dtype and dimension names of the variables a batch can carry
VarDtype(var) == IF var \in {"y", "beam"} THEN "int" ELSE "float"

VarDims(var) ==
  CASE var = "time" -> <<"time">>
    [] var = "beam" -> <<"beam">>
    [] var = "tiltangle" -> <<"time", "sector">>
    [] OTHER -> <<"time", "beam">>

GetArrNodatavalue(dtype) ==
  IF dtype = "float" THEN FloatNoData
  ELSE IF dtype = "int" THEN IntNoData
  ELSE StrNoData

\* zarr create_dataset followed by newarr[:] = values
CreateDataset(shape, dtype, values) ==
  [dtype |-> dtype, fill |-> GetArrNodatavalue(dtype), shape |-> shape, data |-> values,
   dims |-> <<>>]

\* zarr Array.resize: a None entry keeps the old length; cells outside the old
\* shape read as the fill value, cells outside the new shape are dropped
ZResize(a, newshp) ==
  LET shp == [k \in 1..Len(a.shape) |-> IF newshp[k] = None THEN a.shape[k] ELSE newshp[k]]
  IN  IF Len(shp) = 1
      THEN [a EXCEPT !.shape = shp,
                     !.data = [r \in 1..shp[1] |-> IF r <= a.shape[1] THEN a.data[r] ELSE a.fill]]
      ELSE [a EXCEPT !.shape = shp,
                     !.data = [r \in 1..shp[1] |-> [c \in 1..shp[2] |->
                                 IF r <= a.shape[1] /\ c <= a.shape[2] THEN a.data[r][c] ELSE a.fill]]]

\* slice(lo, hi).indices(n): the slice clipped to an axis of length n
ClipLo(lo, n) == Min2(lo, n)

ClipHi(lo, hi, n) == Max2(Min2(hi, n), Min2(lo, n))

\* zarr Array.__setitem__ with one slice per axis: sel[k] = <<lo, hi>>.  The value
\* must have the shape of the clipped selection, otherwise zarr raises.
SelShape(a, sel) == [k \in 1..Len(a.shape) |-> ClipHi(sel[k][1], sel[k][2], a.shape[k]) - ClipLo(sel[k][1], a.shape[k])]

SetSelectionOk(a, sel, vshape) == SelShape(a, sel) = vshape

SetSelection(a, sel, values) ==
  LET r0 == ClipLo(sel[1][1], a.shape[1])
      r1 == ClipHi(sel[1][1], sel[1][2], a.shape[1])
  IN  IF Len(a.shape) = 1
      THEN [a EXCEPT !.data = [r \in 1..a.shape[1] |->
                                 IF r > r0 /\ r <= r1 THEN values[r - r0] ELSE a.data[r]]]
      ELSE LET c0 == ClipLo(sel[2][1], a.shape[2])
               c1 == ClipHi(sel[2][1], sel[2][2], a.shape[2])
           IN  [a EXCEPT !.data = [r \in 1..a.shape[1] |-> [c \in 1..a.shape[2] |->
                                 IF r > r0 /\ r <= r1 /\ c > c0 /\ c <= c1
                                 THEN values[r - r0][c - c0] ELSE a.data[r][c]]]]

\* --------------------------------------------------------------- the batch
\* The inputs of one distrib_zarr_write call: the variables of its batches
\* (in the order of xarr.variables), the number of tasks n, the first row of
\* data_locs[0], the length of the last batch (a short final chunk), the beam
\* count of the first and of the later batches, the merge and skip_dask flags,
\* an offset of the batch's time values and the number of rows ov that
\* consecutive entries of data_locs share (0 for the usual abutting ranges).
\* id numbers the call and had names the arrays the store held when the call
\* was made.
DataLoc(c, i) == <<c.start + i * (Chunk - c.ov), c.start + i * (Chunk - c.ov) + Chunk>>

FinalSize(c) == DataLoc(c, c.n - 1)[2]

BatchLen(c, i) == IF i = c.n - 1 THEN c.lastLen ELSE Chunk

BatchBeams(c, i) == IF i = 0 THEN c.b0 ELSE c.b1

TimeValue(c, row) == 2 * row + c.toff

\* the value task i of call c carries for a cell: no two tasks carry the same
CellValue(c, i, row, col) == 10000 * c.id + 1000 * i + 10 * row + col

XarrShape(c, i, var) ==
  CASE var = "time" -> <<BatchLen(c, i)>>
    [] var = "beam" -> <<BatchBeams(c, i)>>
    [] OTHER -> <<BatchLen(c, i), BatchBeams(c, i)>>

XarrValues(c, i, var) ==
  CASE var = "time" -> [r \in 1..BatchLen(c, i) |-> TimeValue(c, DataLoc(c, i)[1] + r - 1)]
    [] var = "beam" -> [b \in 1..BatchBeams(c, i) |-> b - 1]
    [] OTHER -> [r \in 1..BatchLen(c, i) |-> [b \in 1..BatchBeams(c, i) |->
                   CellValue(c, i, DataLoc(c, i)[1] + r - 1, b - 1)]]

\* the xarray Dataset handed to task i of call c
Xarr(c, i) ==
  [vars |-> c.vs,
   shape |-> [v \in {c.vs[k] : k \in 1..Len(c.vs)} |-> XarrShape(c, i, v)],
   values |-> [v \in {c.vs[k] : k \in 1..Len(c.vs)} |-> XarrValues(c, i, v)]]

XarrHas(xarr, var) == var \in DOMAIN xarr.shape

\* ------------------------------------------------------------- ZarrWrite
\* mutant of CheckMerge: the batch's first time value is a stored one
CheckMerge_FirstTimeStored(root, xarr) ==
  IF "time" \in DOMAIN root
  THEN \E k \in 1..Len(root["time"].data) : root["time"].data[k] = xarr.values["time"][1]
  ELSE FALSE

\* _check_merge: the batch's time range lies within the stored time range.  A
\* stored NaN makes np.min / np.max NaN and every comparison False.
CheckMerge(root, xarr) ==
  IF "time" \in DOMAIN root
  THEN LET stored == root["time"].data
           batch == xarr.values["time"]
       IN  /\ Len(stored) > 0
           /\ \A k \in 1..Len(stored) : stored[k] # FloatNoData
           /\ batch[1] >= SeqMin(stored)
           /\ batch[Len(batch)] <= SeqMax(stored)
  ELSE FALSE

\* mutant of InflateExpandDim: the block of nodata is put before the array
InflateExpandDim_NodataFirst(a, size, nodata) ==
  [r \in 1..a.shape[1] |-> [c \in 1..size |->
     IF c > size - a.shape[2] THEN a.data[r][c - (size - a.shape[2])] ELSE nodata]]

\* mutant of CheckFixRootgroupExpandDim: any difference in beam count
CheckFixRootgroupExpandDim_AnyDifference(root, xarr) ==
  IF "beam" \in DOMAIN root /\ XarrHas(xarr, "beam")
  THEN root["beam"].shape[1] # xarr.shape["beam"][1]
  ELSE FALSE

\* _check_fix_rootgroup_expand_dim
CheckFixRootgroupExpandDim(root, xarr) ==
  IF "beam" \in DOMAIN root /\ XarrHas(xarr, "beam")
  THEN root["beam"].shape[1] < xarr.shape["beam"][1]
  ELSE FALSE

\* _inflate_expand_dim: np.concatenate of the array with a block of nodata
InflateExpandDim(a, size, nodata) ==
  [r \in 1..a.shape[1] |-> [c \in 1..size |-> IF c <= a.shape[2] THEN a.data[r][c] ELSE nodata]]

\* fix_rootgroup_expand_dim, for one array of zarr_array_names
FixOneExpandDim(root, var, newsize) ==
  LET a == root[var]
      curr == root["beam"].shape[1]
  IN  IF var = "beam"
      THEN [a EXCEPT !.shape = <<newsize>>, !.data = [b \in 1..newsize |-> b - 1]]
      ELSE IF Len(a.shape) >= 2 /\ a.shape[2] = curr
           THEN [a EXCEPT !.shape = <<a.shape[1], newsize>>,
                          !.data = InflateExpandDim(a, newsize, GetArrNodatavalue(a.dtype))]
           ELSE a

FixRootgroupExpandDim(root, xarr) ==
  [var \in DOMAIN root |-> FixOneExpandDim(root, var, xarr.shape["beam"][1])]

CorrectRootgroupDims(root, xarr) ==
  IF CheckFixRootgroupExpandDim(root, xarr) THEN FixRootgroupExpandDim(root, xarr) ELSE root

\* _write_adjust_max_beams (the lookup of rootgroup['beam'] is checked by the caller)
WriteAdjustMaxBeams(root, startingshp) ==
  IF Len(startingshp) >= 2
  THEN [startingshp EXCEPT ![2] = root["beam"].shape[1]]
  ELSE startingshp

\* _write_determine_shape: the shape with finalsize on the time axis.  The axis
\* is found with tuple.index, that is by the VALUE of the axis length.
TimAxis(var) == IF var \in {"beam", "xyz"} THEN None ELSE TupleIndex(VarDims(var), "time")

StartingShp(var, shp, finalsize) ==
  IF var \in {"beam", "xyz"}
  THEN shp
  ELSE [k \in 1..Len(shp) |-> IF TupleIndex(shp, shp[k]) = TimAxis(var) THEN finalsize ELSE shp[k]]

\* the index of the write of an existing array (chunk_idx), one <<lo, hi>> per axis
ChunkIdx(var, shp, dataloc) ==
  LET timlength == shp[TimAxis(var) + 1]
      loc2 == IF timlength # dataloc[2] - dataloc[1] THEN dataloc[1] + timlength ELSE dataloc[2]
  IN  [k \in 1..Len(shp) |-> IF TupleIndex(shp, shp[k]) = TimAxis(var)
                              THEN <<dataloc[1], loc2>> ELSE <<0, shp[k]>>]

\* _write_existing_rootgroup: st = [root, err]
WriteExistingRootgroup(st, xarr, dataloc, var, finalsize) ==
  LET root == st.root
      shp == xarr.shape[var]
      needbeam == finalsize # None /\ var # "tx" /\ Len(shp) >= 2
      resized == IF finalsize # None /\ var # "tx"
                 THEN ZResize(root[var], WriteAdjustMaxBeams(root, StartingShp(var, shp, finalsize)))
                 ELSE root[var]
      idx == ChunkIdx(var, shp, dataloc)
  IN  IF needbeam /\ "beam" \notin DOMAIN root
      THEN [st EXCEPT !.err = "keyerror"]
      ELSE IF ~SetSelectionOk(resized, idx, shp)
           THEN [root |-> [root EXCEPT ![var] = resized], err |-> "shape"]
           ELSE [root |-> [root EXCEPT ![var] = SetSelection(resized, idx, xarr.values[var])],
                 err |-> "none"]

\* _write_new_dataset_rootgroup
WriteNewDatasetRootgroup(st, xarr, var, finalsize) ==
  LET shp == xarr.shape[var]
      newarr == ZResize(CreateDataset(shp, VarDtype(var), xarr.values[var]),
                        StartingShp(var, shp, finalsize))
  IN  [st EXCEPT !.root = [v \in DOMAIN st.root \cup {var} |->
                             IF v = var THEN newarr ELSE st.root[v]]]

\* the body of the loop of write_to_zarr for one variable; names is
\* self.zarr_array_names as read before the loop
WriteOneVar(st, names, xarr, dataloc, var, finalsize, merge) ==
  IF merge /\ var \in {"time", "beam"} THEN st
  ELSE IF var \in {"beam", "xyz"} /\ var \in names THEN st
  ELSE LET res == IF var \in names
                  THEN WriteExistingRootgroup(st, xarr, dataloc, var, finalsize)
                  ELSE WriteNewDatasetRootgroup(st, xarr, var, finalsize)
       IN  IF res.err = "none"
           THEN [res EXCEPT !.root[var].dims = VarDims(var)]
           ELSE res

RECURSIVE WriteVars(_, _, _, _, _, _, _)
WriteVars(st, names, xarr, dataloc, k, finalsize, merge) ==
  IF k > Len(xarr.vars) \/ st.err # "none" THEN st
  ELSE WriteVars(WriteOneVar(st, names, xarr, dataloc, xarr.vars[k], finalsize, merge),
                 names, xarr, dataloc, k + 1, finalsize, merge)

\* _my_xarr_to_zarr_writeattributes for scalar attribute values: a key that is
\* absent is set, a key that is present is overwritten
WriteAttributes(attrs, new) ==
  [k \in DOMAIN attrs \cup DOMAIN new |-> IF k \in DOMAIN new THEN new[k] ELSE attrs[k]]

\* write_to_zarr: the store, the attributes and the error it ends with
WriteToZarr(root, attrs, xarr, newattrs, hasattrs, dataloc, finalsize, merge) ==
  IF merge /\ ~CheckMerge(root, xarr)
  THEN [root |-> root, attrs |-> attrs, err |-> "merge"]
  ELSE LET fixed == IF finalsize # None THEN CorrectRootgroupDims(root, xarr) ELSE root
           names == DOMAIN fixed
           attrs2 == IF hasattrs THEN WriteAttributes(attrs, newattrs) ELSE attrs
           st == WriteVars([root |-> fixed, err |-> "none"], names, xarr, dataloc, 1, finalsize, merge)
       IN  [root |-> st.root, attrs |-> attrs2, err |-> st.err]

\* ------------------------------------------------------ distrib_zarr_write
VarSets == {<<"time", "beam", "x">>, <<"time", "beam", "x", "y">>}

\* one task has one beam count; only a merge shifts the batch's time values
CallInputs ==
  UNION {[vs : VarSets, n : {n}, start : 0..MaxStart, lastLen : 1..Chunk,
          b0 : 1..MaxBeam, b1 : 1..MaxBeam, merge : {m}, skip : BOOLEAN,
          toff : IF m THEN 0..1 ELSE {0}, id : {ncalls + 1},
          ov : 0..Min2(MaxOverlap, Chunk - 1)] :
         n \in 2..MaxTasks, m \in BOOLEAN}
  \cup
  UNION {{[vs |-> v, n |-> 1, start |-> s, lastLen |-> l, b0 |-> b, b1 |-> b,
           merge |-> m, skip |-> k, toff |-> t, id |-> ncalls + 1, ov |-> 0] :
            v \in VarSets, s \in 0..MaxStart, l \in 1..Chunk, b \in 1..MaxBeam,
            k \in BOOLEAN, t \in IF m THEN 0..1 ELSE {0}} : m \in BOOLEAN}

NoCall ==
  [vs |-> <<>>, n |-> 0, start |-> 0, lastLen |-> 1, b0 |-> 1, b1 |-> 1,
   merge |-> FALSE, skip |-> FALSE, toff |-> 0, id |-> 0, ov |-> 0, had |-> {}]

Finished(i) == task[i + 1] \notin {"pending", "running"}

\* mutants of Waited: no wait at all; a wait on task 0 only
Waited_NoWait(i) == TRUE

Waited_TaskZeroOnly(i) == i = 0 \/ Finished(0)

\* wait(futs): every future submitted so far has finished
Waited(i) == \A j \in 0..(i - 1) : Finished(j)

\* _distrib_zarr_write_convenience for task i: only task 0 carries the
\* attributes and finalsize = data_locs[-1][1]
Convenience(i) ==
  WriteToZarr(rootgroup, rootattrs, Xarr(call, i), [written_by |-> call.id], i = 0,
              DataLoc(call, i), IF i = 0 THEN FinalSize(call) ELSE None, call.merge)

Outcome(err) == IF err = "none" THEN "done" ELSE err

\* no function is being studied on its own: no arguments, no result
NoArgs == [fn |-> "none"]

NotCalled == [done |-> FALSE]

\* the dispatcher before its first call
WriterIdle ==
  /\ rootattrs = << >>
  /\ call = NoCall
  /\ task = << >>
  /\ pc = "idle"
  /\ ncalls = 0
  /\ maxEnd = 0
  /\ clean = TRUE
  /\ exc = "none"

Init ==
  /\ rootgroup = << >>
  /\ WriterIdle
  /\ args = NoArgs
  /\ ret = NotCalled

\* a caller invokes distrib_zarr_write
DistribZarrWrite(c) ==
  /\ pc = "idle"
  /\ ncalls < MaxCalls
  /\ call' = [k \in DOMAIN c \cup {"had"} |-> IF k = "had" THEN DOMAIN rootgroup ELSE c[k]]
  /\ task' = [i \in 1..c.n |-> "pending"]
  /\ pc' = IF c.skip THEN "skip" ELSE "dask"
  /\ ncalls' = ncalls + 1
  /\ maxEnd' = Max2(maxEnd, FinalSize(c))
  /\ exc' = "none"
  /\ UNCHANGED <<rootgroup, rootattrs, clean, args, ret>>

\* client.submit of task i, after the wait on the futures submitted before it
Submit(i) ==
  /\ pc = "dask"
  /\ task[i + 1] = "pending"
  /\ Waited(i)
  /\ task' = [task EXCEPT ![i + 1] = "running"]
  /\ UNCHANGED <<rootgroup, rootattrs, call, pc, ncalls, maxEnd, clean, exc, args, ret>>

\* a dask worker runs task i; an exception stays in the future
RunTask(i) ==
  /\ pc = "dask"
  /\ task[i + 1] = "running"
  /\ LET res == Convenience(i)
     IN  /\ rootgroup' = res.root
         /\ rootattrs' = res.attrs
         /\ task' = [task EXCEPT ![i + 1] = Outcome(res.err)]
         /\ clean' = (clean /\ res.err = "none")
  /\ UNCHANGED <<call, pc, ncalls, maxEnd, exc, args, ret>>

\* skip_dask: the loop runs task i in the caller; an exception leaves the loop
SkipDaskTask(i) ==
  /\ pc = "skip"
  /\ task[i + 1] = "pending"
  /\ \A j \in 0..(i - 1) : task[j + 1] = "done"
  /\ LET res == Convenience(i)
     IN  /\ rootgroup' = res.root
         /\ rootattrs' = res.attrs
         /\ task' = [task EXCEPT ![i + 1] = Outcome(res.err)]
         /\ clean' = (clean /\ res.err = "none")
         /\ pc' = IF res.err = "none" THEN "skip" ELSE "idle"
         /\ exc' = IF res.err = "none" THEN exc ELSE res.err
  /\ UNCHANGED <<call, ncalls, maxEnd, args, ret>>

\* return futs
Return ==
  /\ pc \in {"dask", "skip"}
  /\ \A i \in 0..(call.n - 1) : Finished(i)
  /\ pc' = "idle"
  /\ UNCHANGED <<rootgroup, rootattrs, call, task, ncalls, maxEnd, clean, exc, args, ret>>

Next ==
  \/ (pc = "idle" /\ ncalls < MaxCalls /\ \E c \in CallInputs : DistribZarrWrite(c))
  \/ \E i \in 0..(call.n - 1) : Submit(i)
  \/ \E i \in 0..(call.n - 1) : RunTask(i)
  \/ \E i \in 0..(call.n - 1) : SkipDaskTask(i)
  \/ Return

Spec == Init /\ [][Next]_vars

\* ================================================================ claims
\* what a claim reads of the store and of the running call
BatchVars == {call.vs[k] : k \in 1..Len(call.vs)}

TimeIndexed(root) == {v \in DOMAIN root : \E k \in 1..Len(root[v].dims) : root[v].dims[k] = "time"}

BeamArrays(root) == {v \in DOMAIN root : Len(root[v].dims) = 2 /\ root[v].dims[2] = "beam"}

AllDone == \A i \in 0..(call.n - 1) : task[i + 1] = "done"

\* the task, if any, that a step runs to its end
Ran(i) ==
  /\ call' = call
  /\ i < call.n
  /\ task[i + 1] \in {"pending", "running"}
  /\ task'[i + 1] \notin {"pending", "running"}

\* rows [lo, lo + len) of array a hold the batch values vals (all beams of the batch)
RowsHold(a, lo, vals) ==
  \A r \in 1..Len(vals) :
    /\ lo + r <= a.shape[1]
    /\ IF Len(a.shape) = 1
       THEN a.data[lo + r] = vals[r]
       ELSE \A b \in 1..Len(vals[r]) : b <= a.shape[2] /\ a.data[lo + r][b] = vals[r][b]

\* C1: after any sequence of distrib_zarr_write calls that ended without an error,
\* every time-indexed array has a time length equal to the largest data_locs end
\* handed to a call so far (and so all of them have the same length).
C1_TimeLengthIsMaxEnd ==
  (pc = "idle" /\ clean) => \A v \in TimeIndexed(rootgroup) : rootgroup[v].shape[1] = maxEnd

\* C2: a task with index >= 1 is started only when task 0 has finished, and when
\* task 0 ended without an error its attributes are in the store and every
\* time-indexed array it wrote has the final size along time.
C2_TaskZeroFirst ==
  \A i \in 1..(call.n - 1) :
    task[i + 1] # "pending" =>
      /\ Finished(0)
      /\ task[1] = "done" =>
           /\ "written_by" \in DOMAIN rootattrs /\ rootattrs["written_by"] = call.id
           /\ \A v \in BatchVars \ {"beam"} :
                ~(call.merge /\ v = "time") =>
                   v \in DOMAIN rootgroup /\ rootgroup[v].shape[1] = FinalSize(call)

C2_Witness == call.n >= 3 /\ task[1] = "done" /\ task[2] = "done" /\ task[3] = "running"

\* C3: once a task has completed, the rows [start, start + len(batch)) of every
\* time-indexed variable it wrote hold the batch values.
C3_RowsHoldBatch ==
  \A i \in 0..(call.n - 1) :
    task[i + 1] = "done" =>
      \A v \in BatchVars \ {"beam"} :
        ~(call.merge /\ v = "time") =>
           v \in DOMAIN rootgroup /\ RowsHold(rootgroup[v], DataLoc(call, i)[1], XarrValues(call, i, v))

\* the rows of the batch of task i, as 1-based positions of the store
BatchRows(i) == (DataLoc(call, i)[1] + 1)..(DataLoc(call, i)[1] + BatchLen(call, i))

\* C4: a completed write whose batch has more beams (B2) than the store (B1)
\* leaves every pre-existing array with a beam dimension at B2 columns, with only
\* the fill value in columns [B1, B2) of the rows the batch does not write.
C4_GrowthBackfills ==
  [][\A i \in 0..(MaxTasks - 1) :
       (/\ Ran(i)
        /\ task'[i + 1] = "done"
        /\ "beam" \in DOMAIN rootgroup
        /\ BatchBeams(call, i) > rootgroup["beam"].shape[1])
       => \A v \in BeamArrays(rootgroup) :
            /\ rootgroup'[v].shape[2] = BatchBeams(call, i)
            /\ \A r \in 1..rootgroup'[v].shape[1] :
                 r \notin BatchRows(i) =>
                   \A c \in (rootgroup["beam"].shape[1] + 1)..BatchBeams(call, i) :
                     rootgroup'[v].data[r][c] = rootgroup'[v].fill]_vars

\* C5: after a merge-mode call that introduced a new variable, the variable has
\* the time length of the group, holds the batch values at the rows of each task
\* and the fill value in every other row.
C5_MergeNewVariable ==
  (pc = "idle" /\ call.merge /\ AllDone) =>
    \A v \in BatchVars \ (call.had \cup {"time", "beam"}) :
      /\ v \in DOMAIN rootgroup
      /\ rootgroup[v].shape[1] = rootgroup["time"].shape[1]
      /\ \A i \in 0..(call.n - 1) :
           RowsHold(rootgroup[v], DataLoc(call, i)[1], XarrValues(call, i, v))
      /\ \A r \in 1..rootgroup[v].shape[1] :
           (\A i \in 0..(call.n - 1) : r \notin BatchRows(i)) =>
             \A c \in 1..rootgroup[v].shape[2] : rootgroup[v].data[r][c] = rootgroup[v].fill

\* C6: no step makes an array shorter along time or along beam.
C6_NeverTruncated ==
  [][\A v \in DOMAIN rootgroup :
       /\ v \in DOMAIN rootgroup'
       /\ \A k \in 1..Len(rootgroup[v].shape) : rootgroup'[v].shape[k] >= rootgroup[v].shape[k]]_vars

\* C7: as long as every write completed, all arrays with a beam dimension have
\* the length of the beam coordinate array along it.
C7_BeamLengthsAgree ==
  clean => \A v \in BeamArrays(rootgroup) : rootgroup[v].shape[2] = rootgroup["beam"].shape[1]

TimeRangeStored(i) ==
  /\ "time" \in DOMAIN rootgroup
  /\ LET stored == rootgroup["time"].data
         batch == XarrValues(call, i, "time")
     IN  /\ \A k \in 1..Len(stored) : stored[k] # FloatNoData
         /\ \E k \in 1..Len(stored) : stored[k] <= batch[1]
         /\ \E k \in 1..Len(stored) : stored[k] >= batch[Len(batch)]

C9_BeamCompared ==
  \A i \in 0..(call.n - 1) :
    (task[i + 1] = "done" /\ "beam" \in call.had) =>
      XarrValues(call, i, "beam") = rootgroup["beam"].data

\* C9 (amended): a write to a store that holds beam leaves the beam array as it
\* is, whatever beam values the batch carries, except that the first task of a
\* call whose batch has more beams rewrites it as 0..B2-1.
C9_BeamKept ==
  [][\A i \in 0..(MaxTasks - 1) :
       (Ran(i) /\ "beam" \in DOMAIN rootgroup) =>
         rootgroup'["beam"].data =
           IF i = 0 /\ task'[1] # "merge" /\ BatchBeams(call, 0) > rootgroup["beam"].shape[1]
           THEN [b \in 1..BatchBeams(call, 0) |-> b - 1]
           ELSE rootgroup["beam"].data]_vars

C9_Witness ==
  /\ "beam" \in call.had
  /\ task[1] = "done"
  /\ XarrValues(call, 0, "beam") # rootgroup["beam"].data

\* C10 (as claimed): in a call with a dask client and at least three tasks, while
\* a task >= 1 is in flight and another is not yet submitted, the dispatcher can
\* submit it, so that two tasks >= 1 are in flight together.
C10_MayRunInParallel ==
  (/\ pc = "dask"
   /\ call.n >= 3
   /\ \E i \in 1..(call.n - 1) : task[i + 1] = "running"
   /\ \E j \in 1..(call.n - 1) : task[j + 1] = "pending")
  => \E j \in 1..(call.n - 1) : ENABLED Submit(j)

\* C10 (amended): the tasks of a call run one at a time, in index order.
C10_OneTaskAtATime ==
  /\ \A i, j \in 0..(call.n - 1) : (task[i + 1] = "running" /\ task[j + 1] = "running") => i = j
  /\ \A i \in 1..(call.n - 1) : task[i + 1] # "pending" => Finished(i - 1)

C10_Witness ==
  pc = "dask" /\ call.n >= 3 /\ task[1] = "done" /\ task[2] = "running" /\ task[3] = "pending"

\* the tasks of the running call whose row range holds row r (1-based position),
\* and the one with the highest index among them
Covering(r) == {i \in 0..(call.n - 1) : r \in BatchRows(i)}

Latest(r) == CHOOSE j \in Covering(r) : \A i \in Covering(r) : i <= j

\* the value task i carries for cell (r, c) of variable v
TaskCell(i, v, r, c) == XarrValues(call, i, v)[r - DataLoc(call, i)[1]][c]

\* C11: after all tasks of a call with overlapping row ranges completed, every
\* row that two tasks cover holds the values of the highest-index task that
\* covers it, and no cell of such a row holds a value that an earlier task wrote.
C11_LaterWriterWins ==
  (pc = "idle" /\ AllDone) =>
    \A v \in BatchVars \ {"time", "beam"} :
      \A r \in 1..rootgroup[v].shape[1] :
        Cardinality(Covering(r)) >= 2 =>
          \A c \in 1..rootgroup[v].shape[2] :
            IF c <= BatchBeams(call, Latest(r))
            THEN rootgroup[v].data[r][c] = TaskCell(Latest(r), v, r, c)
            ELSE \A i \in Covering(r) \ {Latest(r)} :
                   c <= BatchBeams(call, i) => rootgroup[v].data[r][c] # TaskCell(i, v, r, c)

\* task i ended with an error
Failed(i) == task[i + 1] \notin {"pending", "running", "done"}

\* C12: when a call has ended and one of its tasks failed, the call raised the
\* error of its first failing task to the caller and every task of the call ran
\* to its end.
C12_ErrorPropagatedOthersRun ==
  (pc = "idle" /\ \E i \in 0..(call.n - 1) : Failed(i)) =>
    /\ \E i \in 0..(call.n - 1) :
         Failed(i) /\ exc = task[i + 1] /\ \A j \in 0..(i - 1) : ~Failed(j)
    /\ \A i \in 0..(call.n - 1) : Finished(i)

\* C13: once task 0 of a call has failed, no later task of the call changes the
\* arrays or the attributes of the store.
C13_TaskZeroFailureIsFatal ==
  [][\A i \in 1..(MaxTasks - 1) :
       (Ran(i) /\ Failed(0)) => (rootgroup' = rootgroup /\ rootattrs' = rootattrs)]_vars

\* ============================================ get_new_chunk_locations_zarr
\* bounds of its inputs: the largest row index of a range, the largest time
\* length of the store it reads
MaxRow == 3
MaxArrSize == 2

\* the result of a function call: the value it returned or the exception it raised
Returned(v) == [done |-> TRUE, err |-> "none", val |-> v]

Raised(e) == [done |-> TRUE, err |-> e, val |-> << >>]

\* a store whose time array has n rows
StoreOfLength(n) ==
  [v \in {"time"} |->
     [CreateDataset(<<n>>, "float", [r \in 1..n |-> TimeValue(NoCall, r - 1)]) EXCEPT !.dims = <<"time">>]]

\* data_locs: a list of [start, end] ranges, one per batch
Ranges == UNION {{<<lo, hi>> : hi \in (lo + 1)..MaxRow} : lo \in 0..MaxRow}

LocsArgs ==
  {[fn |-> "get_new_chunk_locations_zarr", exists |-> e, data_locs |-> d, ideal_chunk_size |-> k] :
     e \in BOOLEAN, d \in UNION {[1..n -> Ranges] : n \in 0..MaxTasks}, k \in 1..Chunk}

\* mutant of RechunkNeeded: the number of ranges is not looked at
RechunkNeeded_AnyCount(data_locs, ideal_chunk_size) ==
  data_locs[1][2] - data_locs[1][1] # ideal_chunk_size

\* np.diff(first_chunk)[0] != ideal_chunk_size and len(data_locs) > 1
RechunkNeeded(data_locs, ideal_chunk_size) ==
  data_locs[1][2] - data_locs[1][1] # ideal_chunk_size /\ Len(data_locs) > 1

\* exists is os.path.exists(outputpth), root the group zarr.open reads there.
\* rootgroup.time raises AttributeError on a group without a time array and
\* data_locs[0] raises IndexError on an empty list.
GetNewChunkLocationsZarr(exists, root, data_locs, ideal_chunk_size) ==
  IF ~exists THEN Returned(data_locs)
  ELSE IF "time" \notin DOMAIN root THEN Raised("AttributeError")
  ELSE IF Len(data_locs) = 0 THEN Raised("IndexError")
  ELSE IF RechunkNeeded(data_locs, ideal_chunk_size) THEN Raised("NotImplementedError")
  ELSE LET arr_size == root["time"].shape[1]
       IN  Returned([k \in 1..Len(data_locs) |->
                       <<data_locs[k][1] + arr_size, data_locs[k][2] + arr_size>>])

\* the path is missing, or holds an empty group or a group with a time array
InitLocs ==
  /\ WriterIdle
  /\ args \in LocsArgs
  /\ rootgroup \in (IF args.exists
                    THEN {<< >>} \cup {StoreOfLength(n) : n \in 0..MaxArrSize}
                    ELSE {<< >>})
  /\ ret = NotCalled

CallGetNewChunkLocationsZarr ==
  /\ args.fn = "get_new_chunk_locations_zarr"
  /\ ~ret.done
  /\ ret' = GetNewChunkLocationsZarr(args.exists, rootgroup, args.data_locs, args.ideal_chunk_size)
  /\ UNCHANGED <<rootgroup, rootattrs, call, task, pc, ncalls, maxEnd, clean, exc, args>>

NextLocs == CallGetNewChunkLocationsZarr

SpecLocs == InitLocs /\ [][NextLocs]_vars

\* every range of data_locs shifted by n
Shifted(data_locs, n) == [k \in 1..Len(data_locs) |-> <<data_locs[k][1] + n, data_locs[k][2] + n>>]

\* C14: get_new_chunk_locations_zarr returns data_locs unchanged when the path
\* does not exist or the group has no time array, and otherwise, when it
\* returns, every range shifted by the time length of the group.
C14_RebasedOrUnchanged ==
  (args.fn = "get_new_chunk_locations_zarr" /\ ret.done) =>
    IF ~args.exists \/ "time" \notin DOMAIN rootgroup
    THEN ret = Returned(args.data_locs)
    ELSE ret.err = "none" => ret.val = Shifted(args.data_locs, rootgroup["time"].shape[1])

\* C15: on a group with a time array, get_new_chunk_locations_zarr raises the
\* rechunk error exactly when more than one range is queued and the length of
\* the first range differs from the chunk size; with one range, or a first range
\* of chunk-size length, it returns the shifted ranges.
C15_RechunkOnlyWhenQueued ==
  (args.fn = "get_new_chunk_locations_zarr" /\ ret.done /\ args.exists /\ "time" \in DOMAIN rootgroup) =>
    LET first == args.data_locs[1]
        mismatch == Len(args.data_locs) > 1 /\ first[2] - first[1] # args.ideal_chunk_size
    IN  /\ ret.err = "NotImplementedError" <=> mismatch
        /\ (Len(args.data_locs) >= 1 /\ ~mismatch) =>
             ret = Returned(Shifted(args.data_locs, rootgroup["time"].shape[1]))

C15_Witness ==
  /\ args.fn = "get_new_chunk_locations_zarr"
  /\ ret.done
  /\ args.exists
  /\ "time" \in DOMAIN rootgroup
  /\ Len(args.data_locs) > 1
  /\ args.data_locs[1][2] - args.data_locs[1][1] # args.ideal_chunk_size
  /\ ret.err = "NotImplementedError"

\* ===================================================== return_chunk_slices
\* bounds of its inputs: the number of chunks and the length of a chunk
MaxChunks == 3
MaxChunkLen == 3

RECURSIVE SumSeq(_)
SumSeq(s) == IF Len(s) = 0 THEN 0 ELSE s[1] + SumSeq(Tail(s))

\* a function that returned None
ReturnedNone == [done |-> TRUE, err |-> "none", val |-> << >>, isnone |-> TRUE]

\* the chunk tuples of a one-dimensional object: any lengths, equal or not
ChunkTuples == UNION {[1..n -> 1..MaxChunkLen] : n \in 1..MaxChunks}

SlicesArgs ==
  {[fn |-> "return_chunk_slices", kind |-> k, chunks |-> c] :
     k \in {"Dataset", "DataArray"}, c \in ChunkTuples}

\* return_chunk_slices: the chunks of a DataArray are a tuple, which has no
\* keys(): the AttributeError is caught and None returned.  For a Dataset every
\* slice has the length of the first chunk, and the last one is replaced when
\* the total length is not a multiple of it.  A slice is <<start, stop>>.
ReturnChunkSlices(kind, chunks) ==
  IF kind = "DataArray" THEN ReturnedNone
  ELSE LET chunk_size == chunks[1]
           chunk_slices == [i \in 1..Len(chunks) |-> <<(i - 1) * chunk_size, (i - 1) * chunk_size + chunk_size>>]
           total_len == SumSeq(chunks)
           last_chunk_size == total_len % chunk_size
       IN  IF last_chunk_size # 0
           THEN Returned([chunk_slices EXCEPT ![Len(chunks)] = <<total_len - last_chunk_size, total_len>>])
           ELSE Returned(chunk_slices)

InitSlices ==
  /\ rootgroup = << >>
  /\ WriterIdle
  /\ args \in SlicesArgs
  /\ ret = NotCalled

CallReturnChunkSlices ==
  /\ args.fn = "return_chunk_slices"
  /\ ~ret.done
  /\ ret' = ReturnChunkSlices(args.kind, args.chunks)
  /\ UNCHANGED <<rootgroup, rootattrs, call, task, pc, ncalls, maxEnd, clean, exc, args>>

NextSlices == CallReturnChunkSlices

SpecSlices == InitSlices /\ [][NextSlices]_vars

\* the slices sl partition [0, n): the first starts at 0, the last stops at n,
\* consecutive ones abut and none is empty
Partitions(sl, n) ==
  /\ Len(sl) >= 1
  /\ sl[1][1] = 0
  /\ sl[Len(sl)][2] = n
  /\ \A k \in 1..Len(sl) : sl[k][1] < sl[k][2]
  /\ \A k \in 1..(Len(sl) - 1) : sl[k][2] = sl[k + 1][1]

\* C16: for every chunked one-dimensional object, whatever its chunk tuple,
\* return_chunk_slices returns slices that partition [0, n).
C16_SlicesPartition ==
  (args.fn = "return_chunk_slices" /\ ret.done) =>
    /\ "isnone" \notin DOMAIN ret
    /\ Partitions(ret.val, SumSeq(args.chunks))

\* ==================================================== interp_across_chunks
\* bounds of its inputs: the largest source time, the largest source value and
\* the largest number of target times that are not the source times themselves
MaxTime == 5
MaxVal == 1
MaxTargets == 3

\* the time vectors of a source: strictly increasing, two rows or more
IncreasingTimes ==
  {t \in UNION {[1..n -> 1..MaxTime] : n \in 2..MaxTime} : \A k \in 1..(Len(t) - 1) : t[k] < t[k + 1]}

\* the chunk tuples of a source of n rows; a chunk holds the two rows or more
\* that a linear interpolation needs
ChunksOf(n) == {c \in UNION {[1..m -> 2..n] : m \in 1..(n \div 2)} : SumSeq(c) = n}

\* new_times: the source times themselves, or any vector (sorted or not) of
\* times from before the first to after the last source time
TargetsFor(t) == {t} \cup UNION {[1..m -> 0..(MaxTime + 1)] : m \in 1..MaxTargets}

\* the calls on a source with the time coordinate t
InterpArgs(t) ==
  {[fn |-> "interp_across_chunks", times |-> t, values |-> v, chunks |-> c, new_times |-> nt] :
     v \in [1..Len(t) -> 0..MaxVal], c \in ChunksOf(Len(t)), nt \in TargetsFor(t)}

\* np.cumsum(np.array(xarr_chunks)) - 1: the index (0-based) of the last row of each chunk
ChnkEnd(chunks) == [k \in 1..Len(chunks) |-> SumSeq(SubSeq(chunks, 1, k)) - 1]

\* mutant of ChnkEndTime: the end time of the last chunk is left as it is
ChnkEndTime_NotExtended(times, chunks, new_times) ==
  [k \in 1..Len(chunks) |-> times[ChnkEnd(chunks)[k] + 1]]

\* chnk_end_time: the time of the last row of each chunk, the last one replaced
\* by new_times[-1] + 1
ChnkEndTime(times, chunks, new_times) ==
  [k \in 1..Len(chunks) |->
     IF k = Len(chunks) THEN new_times[Len(new_times)] + 1 ELSE times[ChnkEnd(chunks)[k] + 1]]

\* the binary search of np.searchsorted (side left) for one key in a[lo:hi]
RECURSIVE BinSearch(_, _, _, _)
BinSearch(a, key, lo, hi) ==
  IF lo < hi
  THEN LET mid == lo + (hi - lo) \div 2
       IN  IF a[mid + 1] < key THEN BinSearch(a, key, mid + 1, hi) ELSE BinSearch(a, key, lo, mid)
  ELSE lo

\* np.searchsorted(a, keys): the keys are searched in turn, and the bounds of a
\* search start from the result of the search before it
RECURSIVE SearchFrom(_, _, _, _, _)
SearchFrom(a, keys, k, last_idx, acc) ==
  IF k > Len(keys) THEN acc
  ELSE LET min_idx == IF k > 1 /\ keys[k - 1] < keys[k] THEN last_idx ELSE 0
           max_idx == IF k > 1 /\ keys[k - 1] < keys[k] THEN Len(a)
                      ELSE IF last_idx < Len(a) /\ k > 1 THEN last_idx + 1 ELSE Len(a)
           idx == BinSearch(a, keys[k], min_idx, max_idx)
       IN  SearchFrom(a, keys, k + 1, idx, Append(acc, idx))

SearchSorted(a, keys) == SearchFrom(a, keys, 1, 0, << >>)

\* a[i:j] of python
PySlice(a, i, j) == SubSeq(a, Min2(i, Len(a)) + 1, Min2(j, Len(a)))

\* np.split(new_times, endtime_idx)[:-1]
SplitTimes(new_times, endtime_idx) ==
  [k \in 1..Len(endtime_idx) |->
     PySlice(new_times, IF k = 1 THEN 0 ELSE endtime_idx[k - 1], endtime_idx[k])]

\* chnk_idxs: [first row, last row + 1] of each chunk
ChnkIdxs(chunks) ==
  [k \in 1..Len(chunks) |-> <<SumSeq(SubSeq(chunks, 1, k - 1)), SumSeq(SubSeq(chunks, 1, k))>>]

\* the entries of s at the positions where the sub-vector of tvs is not empty
RECURSIVE KeepNonEmpty(_, _)
KeepNonEmpty(s, tvs) ==
  IF Len(s) = 0 THEN << >>
  ELSE IF Len(tvs[1]) = 0 THEN KeepNonEmpty(Tail(s), Tail(tvs))
       ELSE <<s[1]>> \o KeepNonEmpty(Tail(s), Tail(tvs))

\* _interp_across_chunks_construct_times: chnk_idxs and chnkwise_times
ConstructTimes(times, chunks, new_times) ==
  LET endtime_idx == SearchSorted(new_times, ChnkEndTime(times, chunks, new_times))
      chnkwise_times == SplitTimes(new_times, endtime_idx)
  IN  [chnk_idxs |-> KeepNonEmpty(ChnkIdxs(chunks), chnkwise_times),
       chnkwise_times |-> KeepNonEmpty(chnkwise_times, chnkwise_times)]

\* xarr.interp(time=x, method='linear', fill_value='extrapolate') on one chunk
\* with times ts and values vs: the value on the line through the two rows
\* around x, or through the first (last) two rows when x is before (after) the
\* chunk.  The value is the fraction <<numerator, denominator>>.
Segment(ts, x) ==
  IF x < ts[1] THEN 1
  ELSE IF x >= ts[Len(ts)] THEN Len(ts) - 1
  ELSE CHOOSE i \in 1..(Len(ts) - 1) : ts[i] <= x /\ x < ts[i + 1]

Interp1(ts, vs, x) ==
  LET i == Segment(ts, x)
      den == ts[i + 1] - ts[i]
  IN  <<vs[i] * den + (x - ts[i]) * (vs[i + 1] - vs[i]), den>>

\* _interp_across_chunks_xarrayinterp on the rows [idx[1], idx[2]) of the source
XarrayInterp(times, values, idx, chnk_time) ==
  [k \in 1..Len(chnk_time) |->
     Interp1(SubSeq(times, idx[1] + 1, idx[2]), SubSeq(values, idx[1] + 1, idx[2]), chnk_time[k])]

\* xr.concat of the interpolated chunks
RECURSIVE ConcatChunks(_, _, _, _)
ConcatChunks(times, values, chnk_idxs, chnkwise_times) ==
  IF Len(chnk_idxs) = 0 THEN << >>
  ELSE XarrayInterp(times, values, chnk_idxs[1], chnkwise_times[1])
       \o ConcatChunks(times, values, Tail(chnk_idxs), Tail(chnkwise_times))

\* interp_across_chunks of a one-dimensional source that is not a heading.
\* new_times[-1] raises IndexError on an empty vector, xr.concat raises
\* ValueError on an empty list and the final assert compares the lengths.
InterpAcrossChunks(times, values, chunks, new_times) ==
  IF Len(new_times) = 0 THEN Raised("IndexError")
  ELSE LET ct == ConstructTimes(times, chunks, new_times)
           newarr == ConcatChunks(times, values, ct.chnk_idxs, ct.chnkwise_times)
       IN  IF Len(ct.chnk_idxs) = 0 THEN Raised("ValueError")
           ELSE IF Len(new_times) # Len(newarr) THEN Raised("AssertionError")
           ELSE Returned(newarr)

InitInterp ==
  /\ rootgroup = << >>
  /\ WriterIdle
  /\ \E t \in IncreasingTimes : args \in InterpArgs(t)
  /\ ret = NotCalled

CallInterpAcrossChunks ==
  /\ args.fn = "interp_across_chunks"
  /\ ~ret.done
  /\ ret' = InterpAcrossChunks(args.times, args.values, args.chunks, args.new_times)
  /\ UNCHANGED <<rootgroup, rootattrs, call, task, pc, ncalls, maxEnd, clean, exc, args>>

NextInterp == CallInterpAcrossChunks

SpecInterp == InitInterp /\ [][NextInterp]_vars

\* the vector s is non-decreasing
NonDecreasing(s) == \A k \in 1..(Len(s) - 1) : s[k] <= s[k + 1]

\* C17: interp_across_chunks(source, source.time) returns the source values,
\* whatever the chunking: also at the last row of a chunk that is not the last.
C17_IdentityOnSourceTimes ==
  (args.fn = "interp_across_chunks" /\ ret.done /\ args.new_times = args.times) =>
    /\ ret.err = "none"
    /\ Len(ret.val) = Len(args.values)
    /\ \A k \in 1..Len(args.values) : ret.val[k][1] = args.values[k] * ret.val[k][2]

\* the concatenation of the vectors of a list
RECURSIVE Flatten(_)
Flatten(l) == IF Len(l) = 0 THEN << >> ELSE l[1] \o Flatten(Tail(l))

\* the target times tv belong to the chunk of rows [idx[1], idx[2]): none is
\* before the last time of the chunk before it (when there is one) and all are
\* before the chunk's own last time (when the chunk is not the last)
OwnChunk(times, chunks, idx, tv) ==
  /\ \E k \in 1..Len(chunks) : ChnkIdxs(chunks)[k] = idx
  /\ \A j \in 1..Len(tv) :
       /\ idx[1] = 0 \/ tv[j] >= times[idx[1]]
       /\ idx[2] = Len(times) \/ tv[j] < times[idx[2]]

C19_UnsortedTargetsFail ==
  (args.fn = "interp_across_chunks" /\ ret.done /\ ~NonDecreasing(args.new_times)) => ret.err # "none"

-----------------------------------------------------------------------------
\* compare_and_find_gaps and its helper _find_gaps_split

\* the largest time of a series and the largest max_gap_length tried
MaxGapTime == 5
MaxGapLen == 2

\* the elements of a set of times in increasing order
RECURSIVE SortedTimes(_)
SortedTimes(S) ==
  IF S = {} THEN << >>
  ELSE LET m == CHOOSE x \in S : \A y \in S : x <= y
       IN  <<m>> \o SortedTimes(S \ {m})

\* the time coordinate of a series: at least one time, increasing
TimeSeries == {SortedTimes(S) : S \in (SUBSET (0..MaxGapTime)) \ {{}}}

GapArgs ==
  [fn : {"compare_and_find_gaps"}, source_dat : TimeSeries, new_dat : TimeSeries,
   max_gap_length : 0..MaxGapLen]

\* [[t[gp], t[gp + 1]] for gp in np.argwhere(t.diff().values > max_gap_length)]
GapTimes(t, max_gap_length) ==
  SelectSeq([k \in 1..(Len(t) - 1) |-> <<t[k], t[k + 1]>>],
            LAMBDA p : p[2] - p[1] > max_gap_length)

TimeMin(t) == CHOOSE x \in {t[k] : k \in 1..Len(t)} : \A k \in 1..Len(t) : x <= t[k]
TimeMax(t) == CHOOSE x \in {t[k] : k \in 1..Len(t)} : \A k \in 1..Len(t) : x >= t[k]

\* the test of _find_gaps_split: the data gap contains the existing gap
Contains(dgtime, existtime) ==
  /\ dgtime[1] <= existtime[1] /\ existtime[1] <= dgtime[2]
  /\ dgtime[1] <= existtime[2] /\ existtime[2] <= dgtime[2]

\* the inner loop of _find_gaps_split for one data gap: split around the first
\* existing gap it contains (break), or keep the gap
SplitOne(dgtime, existing_gap_times) ==
  LET hits == {k \in 1..Len(existing_gap_times) : Contains(dgtime, existing_gap_times[k])}
  IN  IF hits = {} THEN <<dgtime>>
      ELSE LET k == CHOOSE x \in hits : \A y \in hits : x <= y
           IN  <<<<dgtime[1], existing_gap_times[k][1]>>, <<existing_gap_times[k][2], dgtime[2]>>>>

RECURSIVE FindGapsSplit(_, _)
FindGapsSplit(datagap_times, existing_gap_times) ==
  IF Len(datagap_times) = 0 THEN << >>
  ELSE SplitOne(Head(datagap_times), existing_gap_times)
         \o FindGapsSplit(Tail(datagap_times), existing_gap_times)

\* a single pass of _find_gaps_split, not repeated
SplitOnce(datagap_times, existing_gap_times) ==
  FindGapsSplit(datagap_times, existing_gap_times)

\* while splitting: split again until a pass changes nothing
RECURSIVE SplitUntilStable(_, _)
SplitUntilStable(datagap_times, existing_gap_times) ==
  LET dg_split_gaps == FindGapsSplit(datagap_times, existing_gap_times)
  IN  IF dg_split_gaps # datagap_times
      THEN SplitUntilStable(dg_split_gaps, existing_gap_times)
      ELSE datagap_times

\* the inner loop of the last pass for one data gap, from existing gap k on:
\* the "continue" of a gap that lies within an existing gap skips to the next
\* existing gap; a trimmed bound is kept for the tests that follow
RECURSIVE AdjustGap(_, _, _)
AdjustGap(dgtime, existing_gap_times, k) ==
  IF k > Len(existing_gap_times) THEN dgtime
  ELSE LET existtime == existing_gap_times[k]
       IN  IF Contains(existtime, dgtime)
           THEN AdjustGap(dgtime, existing_gap_times, k + 1)
           ELSE IF existtime[1] < dgtime[1] /\ dgtime[1] < existtime[2]
           THEN AdjustGap(<<existtime[2], dgtime[2]>>, existing_gap_times, k + 1)
           ELSE IF existtime[1] < dgtime[2] /\ dgtime[2] < existtime[2]
           THEN AdjustGap(<<dgtime[1], existtime[1]>>, existing_gap_times, k + 1)
           ELSE AdjustGap(dgtime, existing_gap_times, k + 1)

\* the last pass: every data gap is appended to finalgaps
AdjustGaps(datagap_times, existing_gap_times) ==
  [k \in 1..Len(datagap_times) |-> AdjustGap(datagap_times[k], existing_gap_times, 1)]

\* datagap_times when the splitting loop starts: the gaps of the new series and,
\* when the new series ends early, the gap up to the end of the source series
DataGapTimes(source_dat, new_dat, max_gap_length) ==
  IF TimeMax(new_dat) + max_gap_length < TimeMax(source_dat)
  THEN Append(GapTimes(new_dat, max_gap_length), <<TimeMax(new_dat), TimeMax(source_dat)>>)
  ELSE GapTimes(new_dat, max_gap_length)

CompareAndFindGaps(source_dat, new_dat, max_gap_length) ==
  LET existing_gap_times == GapTimes(source_dat, max_gap_length)
  IN  IF TimeMin(new_dat) > TimeMin(source_dat) + max_gap_length
      THEN Raised("TypeError")
      ELSE Returned(AdjustGaps(SplitUntilStable(DataGapTimes(source_dat, new_dat, max_gap_length),
                                                existing_gap_times),
                               existing_gap_times))

InitGaps ==
  /\ rootgroup = << >>
  /\ WriterIdle
  /\ args \in GapArgs
  /\ ret = NotCalled

CallCompareAndFindGaps ==
  /\ args.fn = "compare_and_find_gaps"
  /\ ~ret.done
  /\ ret' = CompareAndFindGaps(args.source_dat, args.new_dat, args.max_gap_length)
  /\ UNCHANGED <<rootgroup, rootattrs, call, task, pc, ncalls, maxEnd, clean, exc, args>>

NextGaps == CallCompareAndFindGaps

SpecGaps == InitGaps /\ [][NextGaps]_vars

\* two intervals share no more than an end point
DisjointGaps(a, b) == a[2] <= b[1] \/ b[2] <= a[1]

\* C20: the intervals compare_and_find_gaps returns are pairwise disjoint and
\* none of them lies fully within a gap of the source (reference) series.
C20_DisjointAndOutsideReferenceGaps ==
  (args.fn = "compare_and_find_gaps" /\ ret.done /\ ret.err = "none") =>
    /\ \A i, j \in 1..Len(ret.val) : i # j => DisjointGaps(ret.val[i], ret.val[j])
    /\ \A i \in 1..Len(ret.val) :
         \A k \in 1..Len(GapTimes(args.source_dat, args.max_gap_length)) :
           ~Contains(GapTimes(args.source_dat, args.max_gap_length)[k], ret.val[i])

\* the new series starts later than the source series by more than the gap
StartsLate == TimeMin(args.new_dat) > TimeMin(args.source_dat) + args.max_gap_length

\* the new series ends earlier than the source series by more than the gap
EndsEarly == TimeMax(args.new_dat) + args.max_gap_length < TimeMax(args.source_dat)

\* C21: when the new series starts late the call returns a result that begins
\* at the minimum of the source series, and when it ends early the call
\* returns a result that ends at the maximum of the source series.
C21_LeadingAndTrailingGaps ==
  (args.fn = "compare_and_find_gaps" /\ ret.done) =>
    /\ StartsLate =>
         /\ ret.err = "none"
         /\ Len(ret.val) > 0
         /\ ret.val[1][1] = TimeMin(args.source_dat)
    /\ EndsEarly =>
         /\ ret.err = "none"
         /\ Len(ret.val) > 0
         /\ ret.val[Len(ret.val)][2] = TimeMax(args.source_dat)

\* the number of passes of _find_gaps_split the splitting loop makes, the last
\* one being the pass that changes nothing
RECURSIVE SplitPasses(_, _)
SplitPasses(datagap_times, existing_gap_times) ==
  LET dg_split_gaps == FindGapsSplit(datagap_times, existing_gap_times)
  IN  IF dg_split_gaps # datagap_times
      THEN 1 + SplitPasses(dg_split_gaps, existing_gap_times)
      ELSE 1

\* C28: the splitting loop makes at most one pass more than there are gaps in
\* the source series, and the list it leaves is stable: no interval of it
\* contains a gap of the source series.
C28_SplitLoopEndsStable ==
  (args.fn = "compare_and_find_gaps" /\ ret.done /\ ret.err = "none") =>
    LET exs == GapTimes(args.source_dat, args.max_gap_length)
        start == DataGapTimes(args.source_dat, args.new_dat, args.max_gap_length)
        dgs == SplitUntilStable(start, exs)
    IN  /\ SplitPasses(start, exs) <= Len(exs) + 1
        /\ FindGapsSplit(dgs, exs) = dgs
        /\ \A i \in 1..Len(dgs) : \A k \in 1..Len(exs) : ~Contains(dgs[i], exs[k])

\* a call whose splitting loop made three passes or more: an interval was
\* split and one of its parts was split again
C28_Witness ==
  /\ args.fn = "compare_and_find_gaps"
  /\ ret.done
  /\ ret.err = "none"
  /\ SplitPasses(DataGapTimes(args.source_dat, args.new_dat, args.max_gap_length),
                 GapTimes(args.source_dat, args.max_gap_length)) >= 3

-----------------------------------------------------------------------------
\* stack_nan_array and reform_nan_array

\* the largest (time, beam) array and the largest value stored in it
MaxNanRows == 2
MaxNanBeams == 2
MaxNanVal == 2

\* a (time, beam) array of floats, NaN (FloatNoData) where there is no beam;
\* shape is kept beside the rows because an array may have no row
NanArrays ==
  UNION {{[shape |-> <<r, b>>, rows |-> a] :
            a \in [1..r -> [1..b -> {FloatNoData} \cup (1..MaxNanVal)]]} :
         r \in 0..MaxNanRows, b \in 1..MaxNanBeams}

NanArgs == [fn : {"reform_nan_array"}, dataarray : NanArrays]

\* the positions of an array of the given shape with the second axis running
\* fastest, as np.where and a C-order reshape visit them
RowMajor(shape) ==
  [k \in 1..(shape[1] * shape[2]) |-> <<((k - 1) \div shape[2]) + 1, ((k - 1) % shape[2]) + 1>>]

\* the positions with the first axis running fastest
ColMajor(shape) ==
  [k \in 1..(shape[1] * shape[2]) |-> <<((k - 1) % shape[1]) + 1, ((k - 1) \div shape[1]) + 1>>]

\* orig_idx = np.where(~np.isnan(dataarray)): the positions that hold a value
OrigIdx(dataarray) ==
  SelectSeq(RowMajor(dataarray.shape),
            LAMBDA p : dataarray.rows[p[1]][p[2]] # FloatNoData)

\* dataarray.stack(stck=('time', 'beam')): the positions in the order of the
\* stacked index
StackOrder(shape) == RowMajor(shape)

\* dataarray_stck[nan_idx]: the values of the stacked array that are not NaN
StackNanArray(dataarray) ==
  LET stck == [k \in 1..Len(StackOrder(dataarray.shape)) |->
                 dataarray.rows[StackOrder(dataarray.shape)[k][1]][StackOrder(dataarray.shape)[k][2]]]
  IN  SelectSeq(stck, LAMBDA v : v # FloatNoData)

\* final_arr[:] = np.nan; final_arr[orig_idx] = dataarray_stack: value k goes
\* to position orig_idx[k]
ReformNanArray(dataarray_stack, orig_idx, orig_shape) ==
  IF Len(dataarray_stack) # Len(orig_idx) THEN Raised("ValueError")
  ELSE Returned([shape |-> orig_shape,
                 rows |-> [r \in 1..orig_shape[1] |-> [b \in 1..orig_shape[2] |->
                            IF \E k \in 1..Len(orig_idx) : orig_idx[k] = <<r, b>>
                            THEN dataarray_stack[CHOOSE k \in 1..Len(orig_idx) : orig_idx[k] = <<r, b>>]
                            ELSE FloatNoData]]])

InitNan ==
  /\ rootgroup = << >>
  /\ WriterIdle
  /\ args \in NanArgs
  /\ ret = NotCalled

\* stack_nan_array followed by reform_nan_array with the shape of the array
CallStackThenReform ==
  /\ args.fn = "reform_nan_array"
  /\ ~ret.done
  /\ ret' = ReformNanArray(StackNanArray(args.dataarray), OrigIdx(args.dataarray),
                           args.dataarray.shape)
  /\ UNCHANGED <<rootgroup, rootattrs, call, task, pc, ncalls, maxEnd, clean, exc, args>>

NextNan == CallStackThenReform

SpecNan == InitNan /\ [][NextNan]_vars

\* C22: reforming the stacked values of a (time, beam) array with its original
\* indices and shape gives the array back: every value at the position it was
\* taken from and NaN everywhere else.
C22_StackReformRoundTrip ==
  (args.fn = "reform_nan_array" /\ ret.done) =>
    /\ ret.err = "none"
    /\ ret.val = args.dataarray

\* a ragged array, with different values and with NaN before a value in a row
\* and in a column, has gone through the round trip
C22_Witness ==
  /\ args.fn = "reform_nan_array"
  /\ ret.done
  /\ args.dataarray.shape = <<2, 2>>
  /\ args.dataarray.rows = <<<<FloatNoData, 1>>, <<2, FloatNoData>>>>
  /\ ret.val.rows[1][2] = 1
  /\ ret.val.rows[2][1] = 2

-----------------------------------------------------------------------------
\* combine_xr_attributes

\* the number of batches, of different install/runtime keys, of raw files, of
\* different settings, of Counter values and of serial numbers
MaxBatches == 3
MaxKeys == 3
MaxFiles == 2
MaxSettings == 2
MaxCounter == 2
MaxSerial == 2

\* An attribute dict holds at most one entry of each kind, each kept as a
\* sequence of length 0 (no such key) or 1.
\*   install: key install_<k>; raw_file_name and survey_identifier are 0 when
\*     the JSON object has no such field; settings stands for the JSON text of
\*     the other fields
\*   runtime: key runtime_<k>; Counter is 0 when the field is missing; MinDepth
\*     stands for MinDepth and MaxDepth; settings stands for the other fields
\*   system_serial_number, secondary_system_serial_number: an array of serials
\*   units: a key without a rule of its own, a string or a list
InstallEntries ==
  [k : 1..MaxKeys, raw_file_name : 0..MaxFiles, survey_identifier : 0..1, settings : 1..MaxSettings]

RuntimeEntries ==
  [k : 1..MaxKeys, Counter : 0..MaxCounter, MinDepth : 1..2, settings : 1..MaxSettings]

SerialArrays == {<<n>> : n \in 1..MaxSerial}

OtherValues == [type : {"str", "list"}, v : 1..2]

NoEntries ==
  [install |-> << >>, runtime |-> << >>, system_serial_number |-> << >>,
   secondary_system_serial_number |-> << >>, units |-> << >>]

\* the sequences of 1..MaxBatches elements of S
BatchesOf(S) == UNION {[1..n -> S] : n \in 1..MaxBatches}

\* batches that differ in their install entry, with one serial number
InstallBatches ==
  BatchesOf({[NoEntries EXCEPT !.install = <<e>>, !.system_serial_number = <<<<1>>>>,
                               !.secondary_system_serial_number = <<<<1>>>>] : e \in InstallEntries})

\* batches that differ in their runtime entry
RuntimeBatches ==
  BatchesOf({[NoEntries EXCEPT !.runtime = <<e>>] : e \in RuntimeEntries})

\* batches with or without an install entry that differ in their serial numbers
SerialBatches ==
  BatchesOf({[NoEntries EXCEPT !.install = i, !.system_serial_number = p,
                               !.secondary_system_serial_number = q] :
               i \in {<< >>, <<[k |-> 1, raw_file_name |-> 1, survey_identifier |-> 0, settings |-> 1]>>},
               p \in {<< >>} \cup {<<a>> : a \in SerialArrays},
               q \in {<< >>} \cup {<<a>> : a \in SerialArrays}})

\* batches that differ in the value of a key without a rule of its own
OtherBatches ==
  BatchesOf({[NoEntries EXCEPT !.units = u] : u \in {<< >>} \cup {<<o>> : o \in OtherValues}})

AttrsArgs ==
  [fn : {"combine_xr_attributes"},
   datasets : InstallBatches \cup RuntimeBatches \cup SerialBatches \cup OtherBatches]

\* the local variables of combine_xr_attributes before the first dict;
\* buffered settings of 0 stand for the empty string
AttrsStart ==
  [install |-> << >>, runtime |-> << >>, system_serial_number |-> << >>,
   secondary_system_serial_number |-> << >>, units |-> << >>,
   buffered_settings |-> 0, buffered_runtime_settings |-> 0,
   fnames |-> << >>, survey_nums |-> << >>, err |-> "none"]

\* finaldict[k] = v
SetKey(f, k, v) == [x \in (DOMAIN f) \cup {k} |-> IF x = k THEN v ELSE f[x]]

InSeq(x, s) == \E i \in 1..Len(s) : s[i] = x

\* k[0:7] == 'install'
MergeInstall(st, e) ==
  LET s1 == IF e.raw_file_name # 0 /\ ~InSeq(e.raw_file_name, st.fnames)
            THEN [st EXCEPT !.fnames = Append(@, e.raw_file_name)] ELSE st
      s2 == IF e.survey_identifier # 0 /\ ~InSeq(e.survey_identifier, s1.survey_nums)
            THEN [s1 EXCEPT !.survey_nums = Append(@, e.survey_identifier)] ELSE s1
  IN  IF e.settings = s2.buffered_settings THEN s2
      ELSE IF s2.buffered_settings = 0
      THEN [s2 EXCEPT !.buffered_settings = e.settings, !.install = SetKey(@, e.k, e.settings)]
      ELSE [s2 EXCEPT !.install = SetKey(@, e.k, e.settings)]

\* k[0:7] == 'runtime': the record kept is the whole entry with its Counter
MergeRuntime(st, e) ==
  IF e.settings = st.buffered_runtime_settings THEN st
  ELSE IF st.buffered_runtime_settings = 0
  THEN [st EXCEPT !.buffered_runtime_settings = e.settings,
                  !.runtime = SetKey(@, e.k, [Counter |-> e.Counter, MinDepth |-> e.MinDepth,
                                             settings |-> e.settings])]
  ELSE [st EXCEPT !.runtime = SetKey(@, e.k, [Counter |-> e.Counter, MinDepth |-> e.MinDepth,
                                             settings |-> e.settings])]

\* the truth value of "finaldict[k] != v" for two numpy arrays: "error" when
\* the comparison has more than one element, TRUE when the shapes do not match
ArrayDiffers(a, v) ==
  IF Len(a) # Len(v) /\ Len(a) # 1 /\ Len(v) # 1 THEN "true"
  ELSE LET n == IF Len(a) = 1 THEN Len(v) ELSE Len(a)
       IN  IF n = 0 THEN "false"
           ELSE IF n > 1 THEN "error"
           ELSE IF a[1] # v[1] THEN "true" ELSE "false"

\* the serial number keys: kept when first seen, appended to when different
MergeSerial(have, v) ==
  IF have = << >> THEN [err |-> "none", val |-> <<v>>]
  ELSE LET d == ArrayDiffers(have[1], v)
       IN  IF d = "error" THEN [err |-> "ValueError", val |-> have]
           ELSE IF d = "true" THEN [err |-> "none", val |-> <<have[1] \o v>>]
           ELSE [err |-> "none", val |-> have]

\* the entries of one dict, in the order of its keys
MergeDict(st, d) ==
  LET s1 == IF d.install # << >> THEN MergeInstall(st, d.install[1]) ELSE st
      s2 == IF d.runtime # << >> THEN MergeRuntime(s1, d.runtime[1]) ELSE s1
      p == IF d.system_serial_number # << >>
           THEN MergeSerial(s2.system_serial_number, d.system_serial_number[1])
           ELSE [err |-> "none", val |-> s2.system_serial_number]
      q == IF d.secondary_system_serial_number # << >>
           THEN MergeSerial(s2.secondary_system_serial_number, d.secondary_system_serial_number[1])
           ELSE [err |-> "none", val |-> s2.secondary_system_serial_number]
      s3 == [s2 EXCEPT !.system_serial_number = p.val]
      s4 == [s3 EXCEPT !.secondary_system_serial_number = q.val]
  IN  IF p.err # "none" THEN [s2 EXCEPT !.err = p.err]
      ELSE IF q.err # "none" THEN [s3 EXCEPT !.err = q.err]
      ELSE IF d.units # << >> /\ s4.units = << >> THEN [s4 EXCEPT !.units = d.units]
      ELSE s4

RECURSIVE MergeDicts(_, _)
MergeDicts(st, all_attrs) ==
  IF Len(all_attrs) = 0 \/ st.err # "none" THEN st
  ELSE MergeDicts(MergeDict(st, Head(all_attrs)), Tail(all_attrs))

\* list(np.unique(...)): the different elements in increasing order
UniqueSorted(s) == SortedTimes({s[i] : i \in 1..Len(s)})

CombineXrAttributes(datasets) ==
  LET st == MergeDicts(AttrsStart, datasets)
      finaldict == [install |-> st.install, runtime |-> st.runtime,
                    system_serial_number |-> st.system_serial_number,
                    secondary_system_serial_number |-> st.secondary_system_serial_number,
                    units |-> st.units,
                    multibeam_files |-> UniqueSorted(st.fnames),
                    survey_number |-> UniqueSorted(st.survey_nums)]
  IN  IF st.err # "none" THEN Raised(st.err)
      ELSE IF st.fnames # << >> /\ (st.system_serial_number = << >> \/
                                   st.secondary_system_serial_number = << >>)
      THEN Raised("KeyError")
      ELSE Returned(finaldict)

InitAttrs ==
  /\ rootgroup = << >>
  /\ WriterIdle
  /\ args \in AttrsArgs
  /\ ret = NotCalled

CallCombineXrAttributes ==
  /\ args.fn = "combine_xr_attributes"
  /\ ~ret.done
  /\ ret' = CombineXrAttributes(args.datasets)
  /\ UNCHANGED <<rootgroup, rootattrs, call, task, pc, ncalls, maxEnd, clean, exc, args>>

NextAttrs == CallCombineXrAttributes

SpecAttrs == InitAttrs /\ [][NextAttrs]_vars

\* every dict of the call has an entry of the given kind
AllHave(kind) == \A i \in 1..Len(args.datasets) : args.datasets[i][kind] # << >>

\* the raw file names of the install entries of the call
RawFileNames ==
  {args.datasets[i].install[1].raw_file_name : i \in 1..Len(args.datasets)} \ {0}

\* C23: when every batch has an install entry (and the serial numbers), the
\* install entries kept are the different sub-objects of the batches, each kept
\* once, and multibeam_files is the sorted list of the different raw file names.
C23_InstallKeptOncePerSubObject ==
  (args.fn = "combine_xr_attributes" /\ ret.done /\ AllHave("install")
     /\ AllHave("system_serial_number") /\ AllHave("secondary_system_serial_number")) =>
    /\ ret.err = "none"
    /\ {ret.val.install[k] : k \in DOMAIN ret.val.install}
         = {args.datasets[i].install[1].settings : i \in 1..Len(args.datasets)}
    /\ Cardinality(DOMAIN ret.val.install)
         = Cardinality({args.datasets[i].install[1].settings : i \in 1..Len(args.datasets)})
    /\ ret.val.multibeam_files = SortedTimes(RawFileNames)

\* the settings of the runtime entries of the call, Counter, MinDepth and
\* MaxDepth left out
RuntimeSettings == {args.datasets[i].runtime[1].settings : i \in 1..Len(args.datasets)}

\* C24: when every batch has a runtime entry, the runtime records kept are the
\* entries that differ after Counter, MinDepth and MaxDepth are left out, one
\* record for each, and each record kept has the Counter of an entry it stands
\* for.
C24_RuntimeCollapsed ==
  (args.fn = "combine_xr_attributes" /\ ret.done /\ AllHave("runtime")) =>
    /\ ret.err = "none"
    /\ {ret.val.runtime[k].settings : k \in DOMAIN ret.val.runtime} = RuntimeSettings
    /\ Cardinality(DOMAIN ret.val.runtime) = Cardinality(RuntimeSettings)
    /\ \A k \in DOMAIN ret.val.runtime :
         \E i \in 1..Len(args.datasets) :
           /\ args.datasets[i].runtime[1].k = k
           /\ args.datasets[i].runtime[1].settings = ret.val.runtime[k].settings
           /\ args.datasets[i].runtime[1].Counter = ret.val.runtime[k].Counter

\* the serial numbers the batches of the call carry under the given key
SerialsSeen(key) ==
  UNION {{args.datasets[i][key][1][j] : j \in 1..Len(args.datasets[i][key][1])} :
           i \in {x \in 1..Len(args.datasets) : args.datasets[x][key] # << >>}}

\* the merged value of a serial number key holds each serial seen, once
SerialsMergedOnce(key) ==
  LET merged == IF ret.val[key] = << >> THEN << >> ELSE ret.val[key][1]
  IN  /\ {merged[j] : j \in 1..Len(merged)} = SerialsSeen(key)
      /\ Len(merged) = Cardinality(SerialsSeen(key))

\* C25: the merge ends without error, and the merged system_serial_number and
\* secondary_system_serial_number hold each serial number of the batches once.
C25_SerialsUnique ==
  (args.fn = "combine_xr_attributes" /\ ret.done) =>
    /\ ret.err = "none"
    /\ SerialsMergedOnce("system_serial_number")
    /\ SerialsMergedOnce("secondary_system_serial_number")

\* C26: the merge fails when the value of the key without a rule of its own
\* is a string in one batch and a list in another.
C26_TypeChangeFails ==
  (args.fn = "combine_xr_attributes" /\ ret.done
     /\ \E i, j \in 1..Len(args.datasets) :
          /\ args.datasets[i].units # << >>
          /\ args.datasets[j].units # << >>
          /\ args.datasets[i].units[1].type # args.datasets[j].units[1].type) =>
    ret.err # "none"

-----------------------------------------------------------------------------
\* write_to_zarr on a store that holds a (time, sector) array beside the
\* (time, beam) arrays: a first write that creates the store, then the first
\* task of an append

\* the largest number of rows of a batch, of beams and of sectors
MaxExpRows == 2
MaxExpBeams == 3
MaxSectors == 2

\* rows1, beams1: the rows and beams of the batch that creates the store
\* rows2, beams2: the rows and beams of the appended batch
\* sectors:       the length of the sector dimension of both batches
\* more:          the rows that later tasks of the append will add
ExpandArgs ==
  [fn : {"write_to_zarr"}, rows1 : 1..MaxExpRows, beams1 : 1..MaxExpBeams,
   rows2 : 1..MaxExpRows, beams2 : 1..MaxExpBeams, sectors : 1..MaxSectors, more : 0..1]

\* a Dataset with time, beam, the (time, beam) array x and the (time, sector)
\* array tiltangle; its rows are rows first + 1 .. first + rows of the store
ExpandXarr(first, rows, beams, sectors) ==
  LET shp == [v \in {"time", "beam", "x", "tiltangle"} |->
                CASE v = "time" -> <<rows>>
                  [] v = "beam" -> <<beams>>
                  [] v = "x" -> <<rows, beams>>
                  [] OTHER -> <<rows, sectors>>]
  IN  [vars |-> <<"time", "beam", "x", "tiltangle">>,
       shape |-> shp,
       values |-> [v \in {"time", "beam", "x", "tiltangle"} |->
                     CASE v = "time" -> [r \in 1..rows |-> first + r]
                       [] v = "beam" -> [b \in 1..beams |-> b - 1]
                       [] v = "x" -> [r \in 1..rows |-> [b \in 1..beams |-> 100 * (first + r) + b]]
                       [] OTHER -> [r \in 1..rows |-> [c \in 1..sectors |-> 1000 + 100 * (first + r) + c]]]]

FirstXarr == ExpandXarr(0, args.rows1, args.beams1, args.sectors)

AppendXarr == ExpandXarr(args.rows1, args.rows2, args.beams2, args.sectors)

InitExpand ==
  /\ rootgroup = << >>
  /\ WriterIdle
  /\ args \in ExpandArgs
  /\ ret = NotCalled

\* the write that creates the store
CreateStore ==
  /\ args.fn = "write_to_zarr"
  /\ ~ret.done
  /\ rootgroup = << >>
  /\ rootgroup' = WriteToZarr(rootgroup, rootattrs, FirstXarr, << >>, FALSE,
                              <<0, args.rows1>>, args.rows1, FALSE).root
  /\ UNCHANGED <<rootattrs, call, task, pc, ncalls, maxEnd, clean, exc, args, ret>>

\* the first task of an append, with finalsize; ret.val keeps the store as it
\* was before the call
AppendFirstTask ==
  /\ args.fn = "write_to_zarr"
  /\ ~ret.done
  /\ rootgroup # << >>
  /\ LET res == WriteToZarr(rootgroup, rootattrs, AppendXarr, << >>, FALSE,
                            <<args.rows1, args.rows1 + args.rows2>>,
                            args.rows1 + args.rows2 + args.more, FALSE)
     IN  /\ rootgroup' = res.root
         /\ ret' = [done |-> TRUE, err |-> res.err, val |-> rootgroup]
  /\ UNCHANGED <<rootattrs, call, task, pc, ncalls, maxEnd, clean, exc, args>>

NextExpand == CreateStore \/ AppendFirstTask

SpecExpand == InitExpand /\ [][NextExpand]_vars

\* array b has every cell of array a, with the value it has in a
CellsKept(a, b) ==
  /\ Len(b.shape) = Len(a.shape)
  /\ \A k \in 1..Len(a.shape) : b.shape[k] >= a.shape[k]
  /\ IF Len(a.shape) = 1
     THEN \A r \in 1..a.shape[1] : b.data[r] = a.data[r]
     ELSE \A r \in 1..a.shape[1] : \A c \in 1..a.shape[2] : b.data[r][c] = a.data[r][c]

\* C29: when the appended batch has more beams than the store, the growth of
\* the beam dimension leaves every array of the store with the rows it had and
\* every cell it had with its value, and so does the write_to_zarr call that
\* grew the store when it ends without error.
C29_GrowthKeepsStoredCells ==
  (args.fn = "write_to_zarr" /\ ret.done /\ CheckFixRootgroupExpandDim(ret.val, AppendXarr)) =>
    LET grown == FixRootgroupExpandDim(ret.val, AppendXarr)
    IN  /\ DOMAIN grown = DOMAIN ret.val
        /\ \A v \in DOMAIN ret.val :
             /\ CellsKept(ret.val[v], grown[v])
             /\ grown[v].shape[1] = ret.val[v].shape[1] \/ v = "beam"
        /\ ret.err = "none" => \A v \in DOMAIN ret.val : CellsKept(ret.val[v], rootgroup[v])

\* an append grew the beam dimension of a store whose x held values
C29_Witness ==
  /\ args.fn = "write_to_zarr"
  /\ ret.done
  /\ ret.err = "none"
  /\ args.beams1 = 2
  /\ args.beams2 = 3
  /\ ret.val["x"].shape = <<args.rows1, 2>>
  /\ rootgroup["x"].shape[2] = 3
  /\ rootgroup["x"].data[1][1] = ret.val["x"].data[1][1]
  /\ rootgroup["x"].data[1][3] = FloatNoData

\* C30: a write_to_zarr call leaves the length of the sector dimension of the
\* stored (time, sector) array as it was.
C30_SectorLengthKept ==
  (args.fn = "write_to_zarr" /\ ret.done) =>
    rootgroup["tiltangle"].shape[2] = ret.val["tiltangle"].shape[2]

-----------------------------------------------------------------------------
\* interp_across_chunks at the seams between chunks

\* the rows (1-based) that end a chunk other than the last
SeamRows == {ChnkEnd(args.chunks)[k] + 1 : k \in 1..(Len(args.chunks) - 1)}

\* C27: a target time that lies between the last row of a chunk and the first
\* row of the next chunk gets the value of the straight line through those two
\* rows.
C27_SeamInterpolated ==
  (args.fn = "interp_across_chunks" /\ ret.done /\ ret.err = "none"
     /\ NonDecreasing(args.new_times)) =>
    \A k \in 1..Len(args.new_times) : \A e \in SeamRows :
      (args.times[e] < args.new_times[k] /\ args.new_times[k] < args.times[e + 1]) =>
        LET want == Interp1(<<args.times[e], args.times[e + 1]>>,
                            <<args.values[e], args.values[e + 1]>>, args.new_times[k])
        IN  ret.val[k][1] * want[2] = want[1] * ret.val[k][2]

====
